---- MODULE Spec2Model ----
(***************************************************************************)
(* Model of src/src/wstool/wstool_cli.py: the top-level entry wstool_main  *)
(* and the two handlers the file defines, WstoolCLI.cmd_init and           *)
(* WstoolCLI.cmd_info.  One run of the state machine is one call of        *)
(* wstool_main(argv).  The collaborators imported from rosinstall          *)
(* (get_workspace, get_config, cmd_install_or_update, cmd_info,            *)
(* cmd_snapshot, the config persister, optparse) are the environment:      *)
(* each call is counted, and its outcome is chosen nondeterministically.   *)
(***************************************************************************)
EXTENDS Integers, Sequences, FiniteSets, TLC

(* ------------------------------ bounds --------------------------------- *)
\* longest text given to -j/--parallel, in characters
MaxJobsLen == 2
\* longest --only string, in tokens (an attribute word or a comma)
MaxOnlyLen == 3
\* most localname arguments given to info
MaxNames == 2
\* most elements in the initial configuration built by init
MaxElems == 2
\* most positional arguments given to init
MaxInitArgs == 3

(* --------------------------- generic helpers --------------------------- *)
SeqsUpTo(S, n) == UNION {[1..k -> S] : k \in 0..n}

Return(c) == [kind |-> "return", code |-> c]
SystemExit(c) == [kind |-> "SystemExit", code |-> c]
Raised(e) == [kind |-> e, code |-> -1]
Running == [kind |-> "running", code |-> -1]

Line(k, t) == [kind |-> k, text |-> t]

(* ---------------- int(options.jobs), wstool_cli.py:150 ----------------- *)
JobChars == {"-", "0", "2", "a"}
Digit(c) == IF c = "0" THEN 0 ELSE IF c = "2" THEN 2 ELSE -1

RECURSIVE DigitsValue(_, _)
\* value of a string of decimal digits, or -1 when a character is no digit
DigitsValue(s, acc) ==
    IF s = <<>> THEN acc
    ELSE IF Digit(Head(s)) < 0 THEN -1
    ELSE DigitsValue(Tail(s), acc * 10 + Digit(Head(s)))

\* Python's int(): the option default is the integer 1 (line 102), any text
\* given by the user is parsed as an optionally signed decimal number and
\* raises ValueError otherwise.
PyInt(jobs) ==
    IF jobs = <<"default">> THEN [ok |-> TRUE, val |-> 1]
    ELSE LET neg == jobs # <<>> /\ Head(jobs) = "-"
             digits == IF neg THEN Tail(jobs) ELSE jobs
             v == IF digits = <<>> THEN -1 ELSE DigitsValue(digits, 0)
         IN IF v < 0 THEN [ok |-> FALSE, val |-> 0]
            ELSE [ok |-> TRUE, val |-> IF neg THEN 0 - v ELSE v]

(* ------------------- the --only attribute words ------------------------ *)
only_option_valid_attrs ==
    {"path", "localname", "version", "revision", "cur_revision", "uri",
     "cur_uri", "scmtype"}
OnlyTokens == only_option_valid_attrs \cup {"bogus", ","}

RECURSIVE SplitComma(_, _, _)
\* str.split(","): the fields between commas, empty fields included; a field
\* is the sequence of words between two commas
SplitComma(raw, cur, acc) ==
    IF raw = <<>> THEN Append(acc, cur)
    ELSE IF Head(raw) = "," THEN SplitComma(Tail(raw), <<>>, Append(acc, cur))
    ELSE SplitComma(Tail(raw), Append(cur, Head(raw)), acc)

Split(raw) == SplitComma(raw, <<>>, <<>>)

\* attr in only_option_valid_attrs: a field is valid when it is exactly one
\* of the eight words
ValidAttr(field) == Len(field) = 1 /\ field[1] \in only_option_valid_attrs

RECURSIVE JoinComma(_)
\* ','.join(output)
JoinComma(fields) ==
    IF fields = <<>> THEN <<>>
    ELSE IF Len(fields) = 1 THEN <<fields[1]>>
    ELSE <<fields[1], ",">> \o JoinComma(Tail(fields))

(* -------------- the workspace configuration read by info --------------- *)
\* Two declared elements; "None" stands for Python's None (unset).
ElemA == [localname |-> "a", path |-> "pa", scmtype |-> "git", uri |-> "ua",
          version |-> "va", revision |-> "None",
          cur_uri |-> "cua", cur_revision |-> "cra"]
ElemB == [localname |-> "b", path |-> "pb", scmtype |-> "svn", uri |-> "ub",
          version |-> "None", revision |-> "None",
          cur_uri |-> "None", cur_revision |-> "None"]
InfoConfig == <<ElemA, ElemB>>
LocalNames == {"a", "b", "zz"}

(* ------------------------------- state --------------------------------- *)
VARIABLES
    argv,            \* the leading words of argv: program, command, help topic
    userHelp,        \* the user typed --help or -h after the command
    bare,            \* argv held nothing but the program name
    pc,              \* position in wstool_main / cmd_init / cmd_info
    result,          \* how wstool_main ended: return, SystemExit or an exception
    workspace,       \* local `workspace` of wstool_main
    command,         \* local `command` of wstool_main
    argsHelp,        \* '--help' in args or '-h' in args
    opts,            \* (options, args) as returned by parser.parse_args
    target,          \* what target_path is on disk: "dir", "missing", "file"
    cfgExists,       \* os.path.exists(target_path/config_filename) at line 117
    elements,        \* config.get_config_elements() in cmd_init: is_vcs flags
    trace,           \* the steps of cmd_init executed so far, in order
    mkdirs,          \* number of os.mkdir calls
    persisted,       \* number of config_generator calls
    installs,        \* the arguments of each cmd_install_or_update call
    install_success, \* local install_success of cmd_init
    lookup_required, \* local lookup_required of cmd_info
    printed,         \* everything printed, in order
    queries,         \* number of calls of each slow VCS query
    failure,         \* which failure, if any, the run met
    interrupted      \* a KeyboardInterrupt was raised, and where

vars == <<argv, userHelp, bare, pc, result, workspace, command, argsHelp, opts,
          target, cfgExists, elements, trace, mkdirs, persisted, installs,
          install_success, lookup_required, printed, queries, failure,
          interrupted>>

mainVars == <<argv, workspace, command, argsHelp, userHelp, bare>>
initVars == <<target, cfgExists, elements, trace, mkdirs, persisted,
              installs, install_success>>
infoVars == <<lookup_required, queries>>

(* --------------------------- the invocations --------------------------- *)
\* commands for which we do not infer target workspace (line 334)
commands == {"init"}
\* commands which work on a workspace (lines 336-343)
ws_commands == {"info", "remove", "set", "merge", "diff", "status", "update"}
\* first words that are no command: an unknown word, a dash word, and the
\* name of an existing path
OtherWords == {"frobnicate", "-x", "somedir"}
\* os.path.exists(command), line 349
PathExists(word) == word = "somedir"

ArgvSet ==
    {<<"wstool">>, <<"wstool", "--version">>, <<"wstool", "--help">>,
     <<"wstool", "-h">>, <<"wstool", "help">>}
    \cup {<<"wstool", c>> : c \in commands \cup ws_commands \cup OtherWords}
    \cup {<<"wstool", "help", c>> :
            c \in {"help", "init", "info", "update", "frobnicate", "somedir"}}

DefaultOpts ==
    [robust |-> FALSE, jobs |-> <<"default">>, nargs |-> 0,
     localnames |-> <<>>, only |-> <<>>, yaml |-> FALSE]

NoQueries ==
    [cmd_info |-> 0, cmd_snapshot |-> 0, get_curr_uri |-> 0,
     get_current_revision |-> 0]

Init ==
    /\ argv \in ArgvSet
    /\ userHelp \in BOOLEAN
    /\ (userHelp => Len(argv) = 2 /\ argv[2] \in commands \cup ws_commands)
    /\ bare = (Len(argv) < 2)
    /\ pc = "start"
    /\ result = Running
    /\ workspace = "None"
    /\ command = "None"
    /\ argsHelp = FALSE
    /\ opts = DefaultOpts
    /\ target = "unknown"
    /\ cfgExists = FALSE
    /\ elements = <<>>
    /\ trace = <<>>
    /\ mkdirs = 0
    /\ persisted = 0
    /\ installs = <<>>
    /\ install_success = TRUE
    /\ lookup_required = FALSE
    /\ printed = <<>>
    /\ queries = NoQueries
    /\ failure = "none"
    /\ interrupted = "no"

\* the run ends with outcome r; f names the failure met, or is "none"
Finish(r, f) ==
    /\ pc' = "done"
    /\ result' = r
    /\ failure' = f

Say(k, t) == printed' = Append(printed, Line(k, t))

(* ------------------------- wstool_main, 277-370 ------------------------ *)
\* lines 284-290: '--version' in argv prints the versions and exits 0
MainVersion ==
    /\ pc = "start"
    /\ IF \E i \in 1..Len(argv) : argv[i] = "--version"
       THEN /\ Say("version", <<"wstool">>)
            /\ Finish(SystemExit(0), "none")
       ELSE /\ pc' = "infer"
            /\ UNCHANGED <<printed, result, failure>>
    /\ UNCHANGED <<mainVars, opts, initVars, infoVars, interrupted>>

\* lines 298-308: with no command, infer the workspace from the working
\* directory and default to `info`; when none is found print the error and
\* the usage and return 0
MainInfer ==
    /\ pc = "infer"
    /\ IF Len(argv) < 2
       THEN \E found \in BOOLEAN :
              IF found
              THEN /\ workspace' = "ws"
                   /\ argv' = Append(argv, "info")
                   /\ pc' = "helpcheck"
                   /\ UNCHANGED <<printed, result, failure>>
              ELSE /\ printed' = printed \o <<Line("error", <<"no workspace">>),
                                              Line("usage", <<>>)>>
                   /\ Finish(Return(0), "no_workspace")
                   /\ UNCHANGED <<workspace, argv>>
       ELSE /\ pc' = "helpcheck"
            /\ UNCHANGED <<workspace, argv, printed, result, failure>>
    /\ UNCHANGED <<command, argsHelp, userHelp, bare, opts, initVars, infoVars,
                   interrupted>>

\* lines 310-312
MainHelpFlag ==
    /\ pc = "helpcheck"
    /\ IF argv[2] \in {"--help", "-h"}
       THEN /\ Say("usage", <<>>)
            /\ Finish(Return(0), "none")
       ELSE /\ pc' = "dispatch"
            /\ UNCHANGED <<printed, result, failure>>
    /\ UNCHANGED <<mainVars, opts, initVars, infoVars, interrupted>>

\* lines 315-358: `help` and `help help` print the usage; `help CMD` becomes
\* `CMD --help`; a word that is no command is `info -t WORD` when it names an
\* existing path and an error otherwise
MainDispatch ==
    /\ pc = "dispatch"
    /\ LET isHelp == argv[2] = "help"
           cmd == IF isHelp /\ Len(argv) >= 3 THEN argv[3] ELSE argv[2]
           hlp == userHelp \/ (isHelp /\ Len(argv) >= 3)
       IN IF isHelp /\ (Len(argv) < 3 \/ cmd = "help")
          THEN /\ Say("usage", <<>>)
               /\ Finish(Return(0), "none")
               /\ UNCHANGED <<command, argsHelp>>
          ELSE IF cmd \notin commands /\ cmd \notin ws_commands
          THEN IF PathExists(cmd)
               THEN /\ command' = "info"
                    /\ argsHelp' = hlp
                    /\ pc' = "select"
                    /\ UNCHANGED <<printed, result, failure>>
               ELSE /\ printed' = printed \o
                         <<Line("error", <<"unknown command", cmd>>),
                           Line("usage", <<>>)>>
                    /\ Finish(Return(1), "unknown_command")
                    /\ UNCHANGED <<command, argsHelp>>
          ELSE /\ command' = cmd
               /\ argsHelp' = hlp
               /\ pc' = "select"
               /\ UNCHANGED <<printed, result, failure>>
    /\ UNCHANGED <<argv, workspace, userHelp, bare, opts, initVars, infoVars,
                   interrupted>>

\* lines 360-367: init is called at once; for a workspace command the
\* workspace is inferred first unless it is known or help was asked for.
\* get_workspace raises MultiProjectException when there is no workspace,
\* and nothing in wstool_main catches it.
MainSelect ==
    /\ pc = "select"
    /\ IF command \in commands
       THEN /\ pc' = "init_parse"
            /\ UNCHANGED <<workspace, result, failure>>
       ELSE IF workspace = "None" /\ ~argsHelp
       THEN \E found \in BOOLEAN :
              IF found
              THEN /\ workspace' = "ws"
                   /\ pc' = IF command = "info" THEN "info_parse" ELSE "ws_call"
                   /\ UNCHANGED <<result, failure>>
              ELSE /\ Finish(Raised("MultiProjectException"), "no_workspace")
                   /\ UNCHANGED workspace
       ELSE /\ pc' = IF command = "info" THEN "info_parse" ELSE "ws_call"
            /\ UNCHANGED <<workspace, result, failure>>
    /\ UNCHANGED <<argv, command, argsHelp, userHelp, bare, opts, initVars,
                   infoVars, printed, interrupted>>

\* line 367 for remove, set, merge, diff, status, update: the handlers are
\* inherited from MultiprojectCLI; each returns 0 or 1 or raises
\* MultiProjectException
WsCall ==
    /\ pc = "ws_call"
    /\ \E out \in {"ok", "failed", "raise"} :
         CASE out = "ok" -> Finish(Return(0), "none")
           [] out = "failed" -> Finish(Return(1), "handler_failed")
           [] out = "raise" ->
                Finish(Raised("MultiProjectException"), "config_error")
    /\ UNCHANGED <<mainVars, opts, initVars, infoVars, printed,
                   interrupted>>

\* lines 314, 369-370: the try block starts at line 314, so it covers the
\* dispatch, the workspace inference of line 364 and the handlers, but not
\* lines 284-312
InTry(p) == p \notin {"start", "infer", "helpcheck"}

\* a KeyboardInterrupt raised while the run is at position pc
Interrupt ==
    /\ pc # "done"
    /\ interrupted' = pc
    /\ IF InTry(pc)
       THEN Finish(Return(1), "interrupt")
       ELSE Finish(Raised("KeyboardInterrupt"), "interrupt")
    /\ UNCHANGED <<mainVars, opts, initVars, infoVars, printed>>

(* ------------------------ WstoolCLI.cmd_init, 79-155 ------------------- *)
\* ROSINSTALL_FILENAME, the default of WstoolCLI.__init__ (line 71), which is
\* how wstool_main constructs the CLI object (line 331)
config_filename == ".rosinstall"

InitOptsSet ==
    [robust : BOOLEAN,
     jobs : {<<"default">>} \cup SeqsUpTo(JobChars, MaxJobsLen),
     nargs : 0..MaxInitArgs,
     localnames : {<<>>}, only : {<<>>}, yaml : {FALSE}]

\* the order of the steps of init, as section 4.4 names them
InitOrder == <<"check_existing", "get_config", "validate_vcs", "persist",
               "install">>

\* lines 80-105: the config filename guard and parser.parse_args, which
\* prints the help and exits 0 on --help, exits 2 through parser.error on a
\* malformed option, and otherwise yields the options and the arguments
CmdInitParse ==
    /\ pc = "init_parse"
    /\ IF config_filename = "None"
       THEN /\ Say("error", <<"config filename required for init">>)
            /\ Finish(Return(1), "bug")
            /\ UNCHANGED opts
       ELSE IF argsHelp
       THEN /\ Say("help", <<"init">>)
            /\ Finish(SystemExit(0), "none")
            /\ UNCHANGED opts
       ELSE \/ /\ Say("error", <<"no such option">>)
               /\ Finish(SystemExit(2), "usage")
               /\ UNCHANGED opts
            \/ /\ opts' \in InitOptsSet
               /\ pc' = "init_target"
               /\ UNCHANGED <<printed, result, failure>>
    /\ UNCHANGED <<mainVars, initVars, infoVars, interrupted>>

\* lines 106-115: a missing target is created, a target that exists and is
\* no directory is reported, and in every case the code goes on to line 117
CmdInitTarget ==
    /\ pc = "init_target"
    /\ \E kind \in {"dir", "missing", "file"} :
         \* line 107: without arguments the target is '.', a directory
         /\ opts.nargs < 1 => kind = "dir"
         /\ target' = kind
         /\ mkdirs' = IF kind = "missing" THEN mkdirs + 1 ELSE mkdirs
         /\ IF kind = "file"
            THEN Say("error", <<"Cannot create in target path">>)
            ELSE UNCHANGED printed
    /\ pc' = "init_exists"
    /\ UNCHANGED <<mainVars, opts, cfgExists, elements, trace, persisted,
                   installs, install_success, infoVars, result, failure,
                   interrupted>>

\* lines 117-119: a config file can be there only below a directory that
\* existed before the call
CmdInitExists ==
    /\ pc = "init_exists"
    /\ \E ex \in BOOLEAN :
         /\ ex => target = "dir"
         /\ cfgExists' = ex
         /\ trace' = Append(trace, "check_existing")
         /\ IF ex
            THEN /\ Say("error", <<"There already is a workspace config file">>)
                 /\ Finish(Return(1), "config_exists")
            ELSE /\ pc' = "init_nargs"
                 /\ UNCHANGED <<printed, result, failure>>
    /\ UNCHANGED <<mainVars, opts, target, elements, mkdirs, persisted,
                   installs, install_success, infoVars, interrupted>>

\* lines 120-127
CmdInitArgs ==
    /\ pc = "init_nargs"
    /\ IF opts.nargs > 2
       THEN /\ Say("error", <<"Too many arguments">>)
            /\ Finish(SystemExit(2), "usage")
       ELSE /\ IF opts.nargs = 2
               THEN Say("info", <<"Using initial elements from">>)
               ELSE UNCHANGED printed
            /\ pc' = "init_get_config"
            /\ UNCHANGED <<result, failure>>
    /\ UNCHANGED <<mainVars, opts, initVars, infoVars, interrupted>>

\* lines 129-134: get_config reads the seed; it raises MultiProjectException
\* on a seed it cannot read, else returns a config whose elements are VCS
\* elements (TRUE) or other elements (FALSE)
CmdInitGetConfig ==
    /\ pc = "init_get_config"
    /\ trace' = Append(trace, "get_config")
    /\ \/ /\ Finish(Raised("MultiProjectException"), "config_error")
          /\ UNCHANGED elements
       \/ /\ elements' \in SeqsUpTo(BOOLEAN, MaxElems)
          /\ pc' = "init_validate"
          /\ UNCHANGED <<result, failure>>
    /\ UNCHANGED <<mainVars, opts, target, cfgExists, mkdirs, persisted,
                   installs, install_success, infoVars, printed, interrupted>>

\* CmdInitValidate without the rejection of line 139: an element without VCS
\* information is let through to the persister
CmdInitValidate_NoReject ==
    /\ pc = "init_validate"
    /\ trace' = Append(trace, "validate_vcs")
    /\ IF opts.nargs = 2 /\ Len(elements) = 0
       THEN Say("warning", <<"Not using any element">>)
       ELSE UNCHANGED printed
    /\ pc' = "init_persist"
    /\ UNCHANGED <<result, failure>>
    /\ UNCHANGED <<mainVars, opts, target, cfgExists, elements, mkdirs,
                   persisted, installs, install_success, infoVars,
                   interrupted>>

\* lines 135-139
CmdInitValidate ==
    /\ pc = "init_validate"
    /\ trace' = Append(trace, "validate_vcs")
    /\ IF opts.nargs = 2 /\ Len(elements) = 0
       THEN Say("warning", <<"Not using any element">>)
       ELSE UNCHANGED printed
    /\ IF \E i \in 1..Len(elements) : ~elements[i]
       THEN Finish(Raised("MultiProjectException"), "config_error")
       ELSE /\ pc' = "init_persist"
            /\ UNCHANGED <<result, failure>>
    /\ UNCHANGED <<mainVars, opts, target, cfgExists, elements, mkdirs,
                   persisted, installs, install_success, infoVars,
                   interrupted>>

\* lines 143-144: config_generator is cmd_persist_config (line 76); writing
\* the file can fail
CmdInitPersist ==
    /\ pc = "init_persist"
    /\ trace' = Append(trace, "persist")
    /\ Say("info", <<"Writing">>)
    /\ persisted' = persisted + 1
    /\ \/ Finish(Raised("IOError"), "persist_failed")
       \/ /\ pc' = "init_install"
          /\ UNCHANGED <<result, failure>>
    /\ UNCHANGED <<mainVars, opts, target, cfgExists, elements, mkdirs,
                   installs, install_success, infoVars, interrupted>>

\* lines 146-150: int(options.jobs) is evaluated before the call, so a text
\* that is no number raises ValueError and the orchestrator is not called;
\* the orchestrator reports success or failure, or raises
CmdInitInstall ==
    /\ pc = "init_install"
    /\ LET n == PyInt(opts.jobs)
       IN IF ~n.ok
          THEN /\ Finish(Raised("ValueError"), "bad_jobs")
               /\ UNCHANGED <<trace, installs, install_success>>
          ELSE /\ trace' = Append(trace, "install")
               /\ installs' = Append(installs,
                                [robust |-> FALSE, num_threads |-> n.val])
               /\ \/ /\ install_success' \in BOOLEAN
                     /\ pc' = "init_finish"
                     /\ UNCHANGED <<result, failure>>
                  \/ /\ Finish(Raised("MultiProjectException"),
                               "install_failed")
                     /\ UNCHANGED install_success
    /\ UNCHANGED <<mainVars, opts, target, cfgExists, elements, mkdirs,
                   persisted, infoVars, printed, interrupted>>

\* lines 152-155
CmdInitFinish ==
    /\ pc = "init_finish"
    /\ printed' = printed \o
         (IF ~install_success
          THEN <<Line("warning", <<"installation encountered errors">>)>>
          ELSE <<>>) \o <<Line("info", <<"update complete.">>)>>
    /\ Finish(Return(0), IF install_success THEN "none" ELSE "install_failed")
    /\ UNCHANGED <<mainVars, opts, initVars, infoVars, interrupted>>

(* ------------------------ WstoolCLI.cmd_info, 158-274 ------------------ *)
InfoOptsSet ==
    [robust : {FALSE}, jobs : {<<"default">>}, nargs : {0},
     localnames : SeqsUpTo(LocalNames, MaxNames),
     only : SeqsUpTo(OnlyTokens, MaxOnlyLen),
     yaml : BOOLEAN]

\* `x or ''`
OrEmpty(v) == IF v = "None" THEN "" ELSE v

\* AppendAttr with the `or ''` of line 243 left out: an unset version is
\* printed as None
AppendAttr_NoOrEmpty(output, spec, attr) ==
    LET o1 == IF <<"localname">> = attr
              THEN Append(output, OrEmpty(spec.localname)) ELSE output
        o2 == IF <<"path">> = attr
              THEN Append(o1, OrEmpty(spec.path)) ELSE o1
        o3 == IF <<"scmtype">> = attr
              THEN Append(o2, OrEmpty(spec.scmtype)) ELSE o2
        o4 == IF <<"uri">> = attr
              THEN Append(o3, OrEmpty(spec.uri)) ELSE o3
        o5 == IF <<"version">> = attr
              THEN Append(o4, spec.version) ELSE o4
        o6 == IF <<"revision">> = attr
              THEN Append(o5, OrEmpty(spec.revision)) ELSE o5
        o7 == IF <<"cur_uri">> = attr
              THEN Append(o6, OrEmpty(spec.cur_uri)) ELSE o6
        o8 == IF <<"cur_revision">> = attr
              THEN Append(o7, OrEmpty(spec.cur_revision)) ELSE o7
    IN o8

\* lines 234-249: the chain of independent ifs for one attribute
AppendAttr(output, spec, attr) ==
    LET o1 == IF <<"localname">> = attr
              THEN Append(output, OrEmpty(spec.localname)) ELSE output
        o2 == IF <<"path">> = attr
              THEN Append(o1, OrEmpty(spec.path)) ELSE o1
        o3 == IF <<"scmtype">> = attr
              THEN Append(o2, OrEmpty(spec.scmtype)) ELSE o2
        o4 == IF <<"uri">> = attr
              THEN Append(o3, OrEmpty(spec.uri)) ELSE o3
        o5 == IF <<"version">> = attr
              THEN Append(o4, OrEmpty(spec.version)) ELSE o4
        o6 == IF <<"revision">> = attr
              THEN Append(o5, OrEmpty(spec.revision)) ELSE o5
        o7 == IF <<"cur_uri">> = attr
              THEN Append(o6, OrEmpty(spec.cur_uri)) ELSE o6
        o8 == IF <<"cur_revision">> = attr
              THEN Append(o7, OrEmpty(spec.cur_revision)) ELSE o7
    IN o8

RECURSIVE ElementOutput(_, _, _)
\* lines 232-249: `for attr in only_options` for one element
ElementOutput(spec, only_options, output) ==
    IF only_options = <<>> THEN output
    ELSE ElementOutput(spec, Tail(only_options),
                       AppendAttr(output, spec, Head(only_options)))

\* lines 230-250: one printed line per selected element
ElementLines(elems, only_options) ==
    [i \in 1..Len(elems) |->
        Line("csv", JoinComma(ElementOutput(elems[i], only_options, <<>>)))]

\* number of fields of only_options equal to the word w
CountAttr(only_options, w) ==
    Cardinality({j \in 1..Len(only_options) : only_options[j] = <<w>>})

RECURSIVE ScanOnly(_, _)
\* lines 223-228: the validation loop; it stops at the first invalid field
\* with parser.error, and sets lookup_required on the way
ScanOnly(only_options, lookup) ==
    IF only_options = <<>> THEN [err |-> FALSE, lookup |-> lookup]
    ELSE LET attr == Head(only_options)
         IN IF ~ValidAttr(attr) THEN [err |-> TRUE, lookup |-> lookup]
            ELSE ScanOnly(Tail(only_options),
                   lookup \/ attr[1] \in {"cur_revision", "cur_uri", "revision"})

\* the element of the config with the given local name
ElementNamed(name) ==
    CHOOSE e \in {InfoConfig[i] : i \in 1..Len(InfoConfig)} : e.localname = name

NamePresent(name) == \E i \in 1..Len(InfoConfig) : InfoConfig[i].localname = name

AllPresent(names) == \A i \in 1..Len(names) : NamePresent(names[i])

\* select_elements(config, localnames): the elements with the given names in
\* the order requested, all elements in stored order for None; it fails when
\* a name is absent, which callers test with AllPresent
select_elements(localnames) ==
    IF localnames = <<>> THEN InfoConfig
    ELSE [i \in 1..Len(localnames) |-> ElementNamed(localnames[i])]

\* lines 161-206: parser.parse_args; with nothing but the program name on the
\* command line, args is empty (lines 304, 316)
CmdInfoParse ==
    /\ pc = "info_parse"
    /\ IF argsHelp
       THEN /\ Say("help", <<"info">>)
            /\ Finish(SystemExit(0), "none")
            /\ UNCHANGED opts
       ELSE \/ /\ ~bare
               /\ Say("error", <<"no such option">>)
               /\ Finish(SystemExit(2), "usage")
               /\ UNCHANGED opts
            \/ /\ opts' \in InfoOptsSet
               /\ bare => opts' = DefaultOpts
               /\ pc' = "info_config"
               /\ UNCHANGED <<printed, result, failure>>
    /\ UNCHANGED <<mainVars, initVars, infoVars, interrupted>>

\* lines 208-214: wstool_main passes no config, so the config is read from the
\* workspace; get_config raises MultiProjectException on an unreadable one
CmdInfoConfig ==
    /\ pc = "info_config"
    /\ \/ Finish(Raised("MultiProjectException"), "config_error")
       \/ /\ pc' = "info_only"
          /\ UNCHANGED <<result, failure>>
    /\ UNCHANGED <<mainVars, opts, initVars, infoVars, printed, interrupted>>

\* lines 215-251: without localnames args becomes None and the --only branch
\* is skipped; with localnames and a non-empty --only the fields are checked,
\* the elements selected and one comma-joined line printed per element.
\* The comparison of the list with '' at line 220 is never true.
CmdInfoOnly ==
    /\ pc = "info_only"
    /\ IF opts.localnames = <<>> \/ opts.only = <<>>
       THEN /\ pc' = "info_yaml"
            /\ UNCHANGED <<printed, result, failure, infoVars>>
       ELSE LET only_options == Split(opts.only)
                scan == ScanOnly(only_options, FALSE)
                elems == select_elements(opts.localnames)
            IN /\ lookup_required' = scan.lookup
               /\ IF scan.err
                  THEN /\ Say("error", <<"Invalid --only option">>)
                       /\ Finish(SystemExit(2), "usage")
                       /\ UNCHANGED queries
                  ELSE IF ~AllPresent(opts.localnames)
                  THEN /\ Finish(Raised("LookupError"), "lookup")
                       /\ UNCHANGED <<printed, queries>>
                  ELSE /\ printed' = printed \o ElementLines(elems, only_options)
                       /\ queries' =
                            [queries EXCEPT
                               !.get_curr_uri =
                                   @ + Len(elems) * CountAttr(only_options, "cur_uri"),
                               !.get_current_revision =
                                   @ + Len(elems) * CountAttr(only_options, "cur_revision")]
                       /\ Finish(Return(0), "none")
    /\ UNCHANGED <<mainVars, opts, initVars, interrupted>>

\* lines 252-255: the snapshot queries every selected element's repository
CmdInfoYaml ==
    /\ pc = "info_yaml"
    /\ IF opts.yaml
       THEN /\ queries' = [queries EXCEPT !.cmd_snapshot = @ + 1]
            /\ \/ /\ AllPresent(opts.localnames)
                  /\ Say("yaml", <<"snapshot">>)
                  /\ Finish(Return(0), "none")
               \/ /\ Finish(Raised("MultiProjectException"), "lookup")
                  /\ UNCHANGED printed
       ELSE /\ pc' = "info_slow"
            /\ UNCHANGED <<queries, printed, result, failure>>
    /\ UNCHANGED <<mainVars, opts, initVars, lookup_required, interrupted>>

\* lines 257-274: the status computation, then the list form for exactly one
\* output of a named query, else the header and the table
CmdInfoSlow ==
    /\ pc = "info_slow"
    /\ queries' = [queries EXCEPT !.cmd_info = @ + 1]
    /\ \/ /\ AllPresent(opts.localnames)
          /\ LET outputs == select_elements(opts.localnames)
             IN IF opts.localnames # <<>> /\ Len(outputs) = 1
                THEN Say("list", <<outputs[1].localname>>)
                ELSE \E table \in {"", "table"} :
                       printed' = printed \o <<Line("header", <<"workspace">>)>>
                          \o (IF table # "" THEN <<Line("table", <<table>>)>>
                              ELSE <<>>)
          /\ Finish(Return(0), "none")
       \/ /\ Finish(Raised("MultiProjectException"), "lookup")
          /\ UNCHANGED printed
    /\ UNCHANGED <<mainVars, opts, initVars, lookup_required, interrupted>>

(* --------------------------- the specification ------------------------- *)
Next ==
    \/ MainVersion
    \/ MainInfer
    \/ MainHelpFlag
    \/ MainDispatch
    \/ MainSelect
    \/ WsCall
    \/ CmdInitParse
    \/ CmdInitTarget
    \/ CmdInitExists
    \/ CmdInitArgs
    \/ CmdInitGetConfig
    \/ CmdInitValidate
    \/ CmdInitPersist
    \/ CmdInitInstall
    \/ CmdInitFinish
    \/ CmdInfoParse
    \/ CmdInfoConfig
    \/ CmdInfoOnly
    \/ CmdInfoYaml
    \/ CmdInfoSlow
    \/ Interrupt

Spec == Init /\ [][Next]_vars

TypeOK ==
    /\ pc \in {"start", "infer", "helpcheck", "dispatch", "select", "ws_call",
               "init_parse", "init_target", "init_exists", "init_nargs",
               "init_get_config", "init_validate", "init_persist",
               "init_install", "init_finish", "info_parse", "info_config",
               "info_only", "info_yaml", "info_slow", "done"}
    /\ (pc = "done") = (result # Running)

(* ------------------------------ the claims ----------------------------- *)
\* the exit status of the process: the returned or exited code, and 1 for an
\* exception that leaves wstool_main
ExitCode(r) == IF r.kind \in {"return", "SystemExit"} THEN r.code ELSE 1

\* C1: in every run of cmd_init the robust flag handed to
\* cmd_install_or_update equals the user's --continue-on-error choice.
C1_RobustFollowsFlag ==
    \A i \in 1..Len(installs) : installs[i].robust = opts.robust

\* C2: cmd_init returns 0 only if the install/update pass reported success;
\* when the orchestrator reports a failure cmd_init returns 1, and the config
\* file written before stays written.
C2_ExitReflectsInstall ==
    (pc = "done" /\ command = "init" /\ interrupted = "no")
       => /\ result = Return(0) => (installs # <<>> /\ install_success)
          /\ (installs # <<>> /\ ~install_success)
                => (result = Return(1) /\ persisted = 1)

\* C3: the steps of cmd_init happen in the fixed order check-existing,
\* get-config, validate-VCS, persist, install; a step that fails is the last
\* one executed; and with an existing config file or a non-VCS element the
\* persister and the orchestrator are never called.
C3_InitStepOrder ==
    /\ \E k \in 0..Len(InitOrder) : trace = SubSeq(InitOrder, 1, k)
    /\ persisted = Cardinality({i \in 1..Len(trace) : trace[i] = "persist"})
    /\ Len(installs) = Cardinality({i \in 1..Len(trace) : trace[i] = "install"})
    /\ (cfgExists \/ \E i \in 1..Len(elements) : ~elements[i])
          => (persisted = 0 /\ installs = <<>>)
    /\ failure = "config_exists" => trace = <<"check_existing">>
    /\ (failure = "config_error" /\ command = "init")
          => (persisted = 0 /\ installs = <<>>
              /\ trace[Len(trace)] \in {"get_config", "validate_vcs"})
    /\ failure = "persist_failed"
          => (installs = <<>> /\ trace[Len(trace)] = "persist")

\* C3 witness: init was given a seed with a non-VCS element and stopped at
\* the validation, after the existing-config check and the construction.
C3_Witness ==
    /\ pc = "done"
    /\ command = "init"
    /\ \E i \in 1..Len(elements) : ~elements[i]
    /\ trace = <<"check_existing", "get_config", "validate_vcs">>
    /\ result = Raised("MultiProjectException")

\* C4: whenever cmd_init calls the orchestrator, num_threads is >= 1, for
\* every text the user can give to -j/--parallel.
C4_PositiveThreads ==
    \A i \in 1..Len(installs) : installs[i].num_threads >= 1

\* lines printed for elements: projected fields, snapshot, detail, table
ElementOutputKinds == {"csv", "yaml", "list", "header", "table"}

\* C5: an invocation rejected as a usage error (too many init arguments, an
\* invalid -j value, an invalid --only attribute, an unknown command) is
\* rejected before any side effect: no directory created, no config
\* persisted, no install started, no element output printed.
C5_UsageErrorNoSideEffects ==
    failure \in {"usage", "bad_jobs", "unknown_command"}
       => /\ mkdirs = 0
          /\ persisted = 0
          /\ installs = <<>>
          /\ \A i \in 1..Len(printed) : printed[i].kind \notin ElementOutputKinds

\* the declared attributes, which need no query
StaticAttrs == {"localname", "path", "scmtype", "uri", "version"}

\* the --only text is a comma-separated list of words of the set S
OnlyListOf(only, S) ==
    /\ Len(only) % 2 = 1
    /\ \A j \in 1..Len(only) :
         IF j % 2 = 1 THEN only[j] \in S ELSE only[j] = ","

\* C6: an info invocation whose --only list holds only static attributes
\* issues no VCS query, with or without localname arguments.
C6_StaticOnlyNoQueries ==
    (command = "info" /\ OnlyListOf(opts.only, StaticAttrs))
       => queries = NoQueries

\* the value of an attribute of an element, the empty string when unset
AttrValue(e, a) == IF e[a] = "None" THEN "" ELSE e[a]

\* the line for element e and the --only text: the values of the requested
\* attributes in the requested order, with a comma between two values
ExpectedText(e, only) ==
    [j \in 1..Len(only) |-> IF j % 2 = 1 THEN AttrValue(e, only[j]) ELSE ","]

\* C7: info with localnames n1..nm (m >= 1, all present) and a valid
\* --only=a1,...,ak prints exactly m lines, the i-th for element ni, each of
\* the k values of a1..ak in that order joined by commas (the empty string
\* for an unset value, repeated attributes repeated), prints nothing else
\* and returns 0.
C7_OnlyProjection ==
    (/\ pc = "done"
     /\ command = "info"
     /\ failure \notin {"interrupt", "config_error"}
     /\ opts.localnames # <<>>
     /\ AllPresent(opts.localnames)
     /\ OnlyListOf(opts.only, only_option_valid_attrs))
       => /\ result = Return(0)
          /\ Len(printed) = Len(opts.localnames)
          /\ \A i \in 1..Len(printed) :
               /\ printed[i].kind = "csv"
               /\ \E e \in {ElemA, ElemB} :
                    /\ e.localname = opts.localnames[i]
                    /\ printed[i].text = ExpectedText(e, opts.only)

\* C7 witness: `info --only=version,path b a` has printed ",pb" and "va,pa".
C7_Witness ==
    /\ pc = "done"
    /\ opts.localnames = <<"b", "a">>
    /\ opts.only = <<"version", ",", "path">>
    /\ printed = <<Line("csv", <<"", ",", "pb">>),
                   Line("csv", <<"va", ",", "pa">>)>>
    /\ result = Return(0)

\* C8: a keyboard interrupt during the workspace inference without a
\* command, during the workspace inference for a workspace command, or in a
\* command handler makes wstool_main return 1.
C8_InterruptReturnsOne ==
    (/\ interrupted \notin {"no", "start", "helpcheck", "dispatch"}
     /\ interrupted = "infer" => bare)
       => result = Return(1)

\* C9: the exit code is 0 exactly when the command succeeded or help, usage
\* or the version was asked for, and 1 on every failure or usage error.
C9_ExitCodes ==
    pc = "done" => ExitCode(result) = IF failure = "none" THEN 0 ELSE 1

\* C10: with a target path that exists and is no directory cmd_init stops
\* with a non-zero exit code, without constructing or persisting a config or
\* installing; a missing target is created exactly once, before the
\* existing-config check; for a directory nothing is created.
C10_TargetNotDirStops ==
    /\ target = "file"
          => /\ \A i \in 1..Len(trace) : trace[i] # "get_config"
             /\ persisted = 0
             /\ installs = <<>>
             /\ pc = "done" => ExitCode(result) # 0
    /\ target = "missing" => mkdirs = 1
    /\ target \in {"dir", "unknown"} => mkdirs = 0
    /\ trace # <<>> => target # "unknown"

====
